---- MODULE Spec2Model ----
(***************************************************************************)
(* diffsniff: the two-pass directory comparison of diffsniff/utils.py      *)
(* (diff_items, compare_one_way, match_case_insensitive and the            *)
(* case-insensitive result dictionary) over a case-sensitive filesystem.   *)
(*                                                                         *)
(* A relative path is a sequence of names (its "/"-separated components).  *)
(* A tree is a record [exists, files]: whether the root directory exists   *)
(* and a function from the relative paths of its regular files to their    *)
(* content and mtime; its directories are the proper prefixes of those     *)
(* paths.  One behaviour is a caller invoking diff_items(A, B) and then    *)
(* diff_items(B, A) on an unchanged filesystem.                            *)
(***************************************************************************)
EXTENDS Integers, Sequences, FiniteSets, TLC

VARIABLES
    treeA, treeB,        \* the two directory trees on disk
    ignore_dirs,         \* glob patterns pruning subdirectories
    ignore_files,        \* glob patterns pruning file names
    call,                \* 1: diff_items(A, B), 2: diff_items(B, A), 3: both over
    pc,                  \* "idle" (caller) or "walk" (inside compare_one_way)
    this_path,           \* "A" or "B": the root walked by the current pass
    other_path,          \* "A" or "B": the root looked up by the current pass
    reverse,             \* the reverse argument of the current pass
    result,              \* the CaseInsensitiveMembershipDict being filled
    stack,               \* os.walk: directories still to visit, next first
    this_abspath,        \* os.walk: the directory whose files are looped over
    files,               \* the pruned file names of this_abspath not yet handled
    returned             \* what the finished calls gave their caller

vars == <<treeA, treeB, ignore_dirs, ignore_files, call, pc, this_path,
          other_path, reverse, result, stack, this_abspath, files, returned>>

-----------------------------------------------------------------------------
(* Bounds of the model *)

\* longest relative path of a file, in components
MaxDepth == 2
\* most regular files in the two trees together
MaxFiles == 3

\* names of files and of directories; "a" and "A" differ only in case
FileNames == {"a", "A", "b"}
DirNames == {"a", "A"}
\* file contents; "x" and "y" have the same size
Contents == {"x", "y", "zz"}
\* mtimes: before, at and after the mtime of DefaultAttr
Mtimes == {0, 1, 2}
\* the glob patterns the ignore lists draw from (literal names)
Patterns == {"a"}

-----------------------------------------------------------------------------
(* Strings and paths *)

\* str.lower() on the names of the model
Lower(n) == IF n = "A" THEN "a" ELSE n

\* str.lower() of a "/"-joined relative path
LowerPath(p) == [i \in 1..Len(p) |-> Lower(p[i])]

\* os.path.getsize: the length of the content
Size(c) == IF c = "zz" THEN 2 ELSE 1

\* os.path.split / dirname / basename on a non-empty relative path
Dirname(p) == SubSeq(p, 1, Len(p) - 1)
Basename(p) == p[Len(p)]

IsProperPrefix(d, p) == Len(d) < Len(p) /\ SubSeq(p, 1, Len(d)) = d

\* None for the tuple- and path-valued fields of ItemInfo
NoneSeq == <<>>

-----------------------------------------------------------------------------
(* The filesystem *)

FilePaths(T) == IF T.exists THEN DOMAIN T.files ELSE {}

DirPaths(T) ==
    IF T.exists
    THEN {<<>>} \cup UNION {{SubSeq(q, 1, i) : i \in 0..(Len(q) - 1)} :
                               q \in DOMAIN T.files}
    ELSE {}

\* os.path.isfile, os.path.isdir, os.path.exists (no error on a file used
\* as a directory: they answer False)
isfile(T, p) == p \in FilePaths(T)
isdir(T, p) == p \in DirPaths(T)
exists(T, p) == isfile(T, p) \/ isdir(T, p)

\* os.listdir of an existing directory d
listdir(T, d) ==
    {q[Len(d) + 1] : q \in {r \in FilePaths(T) : IsProperPrefix(d, r)}}

\* fnmatch.fnmatch of a name against a literal pattern: on a case-sensitive
\* platform os.path.normcase is the identity, so the match is exact
fnmatch(name, pattern) == name = pattern

\* mutant: the patterns are not applied
ignore_patterns_none(patterns, names) == {}

\* shutil.ignore_patterns(*patterns)(path, names): the names to ignore
ignore_patterns(patterns, names) ==
    {n \in names : \E p \in patterns : fnmatch(n, p)}

\* mutant: the shallow comparison, equal signatures (size, mtime) decide
cmp_shallow(f1, f2, shallow) ==
    IF Size(f1.content) = Size(f2.content) /\ f1.mtime = f2.mtime
    THEN TRUE
    ELSE f1.content = f2.content

\* filecmp.cmp(f1, f2, shallow) on two regular files: equal signatures
\* decide only when shallow; different sizes are unequal; else the bytes
cmp(f1, f2, shallow) ==
    IF shallow /\ Size(f1.content) = Size(f2.content) /\ f1.mtime = f2.mtime
    THEN TRUE
    ELSE IF Size(f1.content) # Size(f2.content)
    THEN FALSE
    ELSE f1.content = f2.content

-----------------------------------------------------------------------------
(* utils.py *)

\* the "equal" sentinel stored for byte-identical files
None == [kind |-> "None"]

ItemInfo(equal, unique, mtimes, left_to_right, sizes, other_name) ==
    [kind |-> "ItemInfo", equal |-> equal, unique |-> unique,
     mtimes |-> mtimes, left_to_right |-> left_to_right, sizes |-> sizes,
     other_name |-> other_name]

\* mutant: the membership test of a plain dict
Contains_exact(dict, item) == item \in DOMAIN dict

\* CaseInsensitiveMembershipDict.__contains__
Contains(dict, item) ==
    \E key \in DOMAIN dict : LowerPath(key) = LowerPath(item)

\* dict[key] = value
SetItem(dict, key, value) ==
    [k \in DOMAIN dict \cup {key} |-> IF k = key THEN value ELSE dict[k]]

\* match_case_insensitive(absolute_path) below root T: the values a call
\* can give, [kind |-> "raise"] when os.listdir raises NotADirectoryError
match_case_insensitive(T, p) ==
    LET dirname == Dirname(p)
        basename == Basename(p)
        hits == {item \in listdir(T, dirname) : Lower(item) = Lower(basename)}
    IN  IF ~exists(T, dirname)
        THEN {[kind |-> "None"]}
        ELSE IF ~isdir(T, dirname)
        THEN {[kind |-> "raise"]}
        ELSE IF hits = {}
        THEN {[kind |-> "None"]}
        ELSE {[kind |-> "path", path |-> Append(dirname, item)] : item \in hits}

\* mutant: left_to_right does not follow reverse
UniqueInfo_fixed(rev) ==
    ItemInfo(FALSE, TRUE, NoneSeq, TRUE, NoneSeq, NoneSeq)

\* the unique-file entry of compare_one_way
UniqueInfo(rev) ==
    ItemInfo(FALSE, TRUE, NoneSeq, ~rev, NoneSeq, NoneSeq)

\* mutant: a tie of mtimes counts as newer
DifferInfo_ge(f_this, f_other, other_name) ==
    ItemInfo(FALSE, FALSE, <<f_this.mtime, f_other.mtime>>,
             f_this.mtime >= f_other.mtime,
             <<Size(f_this.content), Size(f_other.content)>>, other_name)

\* the entry of compare_one_way for unequal files of the same name
DifferInfo(f_this, f_other, other_name) ==
    ItemInfo(FALSE, FALSE, <<f_this.mtime, f_other.mtime>>,
             f_this.mtime > f_other.mtime,
             <<Size(f_this.content), Size(f_other.content)>>, other_name)

\* mutant: the bare matched basename, without the key's directory
OtherName_basename(item_name, file_other) ==
    IF Basename(file_other) # Basename(item_name)
    THEN <<Basename(file_other)>>
    ELSE NoneSeq

\* other_name of compare_one_way: the matched name when its basename differs
OtherName(item_name, file_other) ==
    IF Basename(file_other) # Basename(item_name)
    THEN Append(Dirname(item_name), Basename(file_other))
    ELSE NoneSeq

\* the body of the loop over files for item_name with file_other resolved
\* to fo (a value of match_case_insensitive, or the path itself)
Classify(This, Other, item_name, fo, rev) ==
    IF fo.kind = "raise"
    THEN [kind |-> "raise"]
    ELSE IF fo.kind = "None" \/ ~isfile(Other, fo.path)
    THEN [kind |-> "store", value |-> UniqueInfo(rev)]
    ELSE IF ~cmp(This.files[item_name], Other.files[fo.path], FALSE)
    THEN [kind |-> "store",
          value |-> DifferInfo(This.files[item_name], Other.files[fo.path],
                               OtherName(item_name, fo.path))]
    ELSE [kind |-> "store", value |-> None]

\* file_other after lines 72-76: the path itself when it exists, else what
\* match_case_insensitive gives
FileOther(Other, item_name) ==
    IF exists(Other, item_name)
    THEN {[kind |-> "path", path |-> item_name]}
    ELSE match_case_insensitive(Other, item_name)

-----------------------------------------------------------------------------
(* The inputs: two trees and the ignore lists *)

Paths ==
    UNION {{Append(d, n) : d \in [1..k -> DirNames], n \in FileNames} :
              k \in 0..(MaxDepth - 1)}

\* two files can share a tree: neither path runs through the other file,
\* and where the paths part, the two sibling names differ ignoring case
Compatible(p, q) ==
    \E i \in 1..Len(p) :
        /\ i <= Len(q)
        /\ \A j \in 1..(i - 1) : p[j] = q[j]
        /\ Lower(p[i]) # Lower(q[i])

RECURSIVE ShapesOf(_)
ShapesOf(k) ==
    IF k = 0
    THEN {{}}
    ELSE LET prev == ShapesOf(k - 1)
         IN  prev \cup
             {sp[1] \cup {sp[2]} :
                 sp \in {c \in prev \X Paths :
                            \A q \in c[1] : Compatible(c[2], q)}}

\* the sets of file paths a tree can hold
Shapes == ShapesOf(MaxFiles)

Attrs == [content : Contents, mtime : Mtimes]
DefaultAttr == [content |-> "x", mtime |-> 1]
NoFiles == [p \in {} |-> DefaultAttr]

\* a file's content and mtime are read only when it is compared: when the
\* other tree holds, in the same directory, a file of the same name ignoring
\* case.  Only how the two compare matters, so the files of A and the files
\* never compared keep DefaultAttr and a compared file of B ranges over Attrs
Counterpart(p, shape) ==
    \E q \in shape : Dirname(q) = Dirname(p)
                     /\ Lower(Basename(q)) = Lower(Basename(p))

TreesOf(shape, free) ==
    {[exists |-> TRUE, files |-> f] :
        f \in {g \in [shape -> Attrs] :
                 \A p \in shape : ~Counterpart(p, free) => g[p] = DefaultAttr}}
    \cup (IF shape = {} THEN {[exists |-> FALSE, files |-> NoFiles]} ELSE {})

Root == <<>>

Init ==
    /\ \E sa \in Shapes, sb \in Shapes :
          /\ Cardinality(sa) + Cardinality(sb) <= MaxFiles
          /\ treeA \in TreesOf(sa, {})
          /\ treeB \in TreesOf(sb, sa)
    /\ ignore_dirs \in SUBSET Patterns
    /\ ignore_files \in SUBSET Patterns
    /\ call = 1
    /\ pc = "idle"
    /\ this_path = "A"
    /\ other_path = "B"
    /\ reverse = FALSE
    /\ result = NoFiles
    /\ stack = <<>>
    /\ this_abspath = Root
    /\ files = {}
    /\ returned = <<>>

-----------------------------------------------------------------------------
(* The operations *)

Tree(root) == IF root = "A" THEN treeA ELSE treeB

\* the orders os.scandir can list a set of names in
Orders(S) ==
    {s \in [1..Cardinality(S) -> S] :
        \A i, j \in 1..Cardinality(S) : i # j => s[i] # s[j]}

\* the caller invokes diff_items: an empty result, then the first pass
\* compare_one_way(this_path, other_path, ..., result)
DiffItems ==
    /\ pc = "idle"
    /\ call \in {1, 2}
    /\ this_path' = (IF call = 1 THEN "A" ELSE "B")
    /\ other_path' = (IF call = 1 THEN "B" ELSE "A")
    /\ reverse' = FALSE
    /\ result' = NoFiles
    /\ stack' = <<Root>>
    /\ this_abspath' = Root
    /\ files' = {}
    /\ pc' = "walk"
    /\ UNCHANGED <<treeA, treeB, ignore_dirs, ignore_files, call, returned>>

\* os.walk yields the next directory: its subdirectories and files are
\* pruned, the kept subdirectories are visited next, in listing order
WalkDir ==
    /\ pc = "walk"
    /\ files = {}
    /\ stack # <<>>
    /\ LET T == Tree(this_path)
           d == Head(stack)
           names == IF isdir(T, d) THEN listdir(T, d) ELSE {}
           subdirs == {n \in names : isdir(T, Append(d, n))}
           nondirs == names \ subdirs
           kept == subdirs \ ignore_patterns(ignore_dirs, subdirs)
       IN  /\ \E order \in Orders(kept) :
                 stack' = [i \in 1..Len(order) |-> Append(d, order[i])]
                              \o Tail(stack)
           /\ files' = nondirs \ ignore_patterns(ignore_files, nondirs)
           /\ this_abspath' = d
    /\ UNCHANGED <<treeA, treeB, ignore_dirs, ignore_files, call, pc,
                   this_path, other_path, reverse, result, returned>>

\* one iteration of "for filename in files"
CompareFile ==
    /\ pc = "walk"
    /\ \E filename \in files :
          LET item_name == Append(this_abspath, filename)
          IN  IF Contains(result, item_name)
              THEN /\ files' = files \ {filename}
                   /\ UNCHANGED <<result, pc, call, returned, stack>>
              ELSE \E fo \in FileOther(Tree(other_path), item_name) :
                     LET c == Classify(Tree(this_path), Tree(other_path),
                                       item_name, fo, reverse)
                     IN  IF c.kind = "raise"
                         THEN /\ returned' =
                                    Append(returned,
                                           [raised |-> TRUE, result |-> NoFiles])
                              /\ pc' = "idle"
                              /\ call' = call + 1
                              /\ files' = {}
                              /\ stack' = <<>>
                              /\ UNCHANGED result
                         ELSE /\ result' = SetItem(result, item_name, c.value)
                              /\ files' = files \ {filename}
                              /\ UNCHANGED <<pc, call, returned, stack>>
    /\ UNCHANGED <<treeA, treeB, ignore_dirs, ignore_files, this_path,
                   other_path, reverse, this_abspath>>

\* the first pass is over: diff_items starts the second,
\* compare_one_way(other_path, this_path, ..., result, reverse=True)
SecondPass ==
    /\ pc = "walk"
    /\ files = {}
    /\ stack = <<>>
    /\ ~reverse
    /\ reverse' = TRUE
    /\ this_path' = other_path
    /\ other_path' = this_path
    /\ stack' = <<Root>>
    /\ this_abspath' = Root
    /\ UNCHANGED <<treeA, treeB, ignore_dirs, ignore_files, call, pc, result,
                   files, returned>>

\* the second pass is over: diff_items returns result
Return ==
    /\ pc = "walk"
    /\ files = {}
    /\ stack = <<>>
    /\ reverse
    /\ returned' = Append(returned, [raised |-> FALSE, result |-> result])
    /\ pc' = "idle"
    /\ call' = call + 1
    /\ UNCHANGED <<treeA, treeB, ignore_dirs, ignore_files, this_path,
                   other_path, reverse, result, stack, this_abspath, files>>

Next == DiffItems \/ WalkDir \/ CompareFile \/ SecondPass \/ Return

Spec == Init /\ [][Next]_vars

-----------------------------------------------------------------------------
(* Vocabulary of the properties *)

\* a name matches one of the glob patterns
Matches(name, patterns) == \E pat \in patterns : name = pat

\* a file is filtered: a directory on its path matches ignore_dirs, or its
\* name matches ignore_files
Filtered(p) ==
    \/ \E i \in 1..(Len(p) - 1) : Matches(p[i], ignore_dirs)
    \/ Matches(Basename(p), ignore_files)

NonFiltered(T) == {p \in FilePaths(T) : ~Filtered(p)}

SamePathIgnoringCase(p, q) == LowerPath(p) = LowerPath(q)

\* p and q name, in the same directory, files whose names agree ignoring case
SameFileIgnoringCase(p, q) ==
    Dirname(p) = Dirname(q) /\ Lower(Basename(p)) = Lower(Basename(q))

\* call i (1: diff_items(A, B), 2: diff_items(B, A)) has returned a result
Ok(i) == Len(returned) >= i /\ ~returned[i].raised
Res(i) == returned[i].result
LeftTree(i) == IF i = 1 THEN treeA ELSE treeB
RightTree(i) == IF i = 1 THEN treeB ELSE treeA

IsUnique(v) == v.kind = "ItemInfo" /\ v.unique
IsDiffering(v) == v.kind = "ItemInfo" /\ ~v.unique

-----------------------------------------------------------------------------
(* C1 *)

\* C1: when diff_items(L, R) returns, the relative path of every
\* non-filtered file of L is a key, the relative path of every non-filtered
\* file of R is a key up to case, and no two keys are equal ignoring case.
C1_EveryFileOnce ==
    \A i \in {1, 2} :
        Ok(i) =>
            /\ \A p \in NonFiltered(LeftTree(i)) : p \in DOMAIN Res(i)
            /\ \A p \in NonFiltered(RightTree(i)) :
                   \E k \in DOMAIN Res(i) : SamePathIgnoringCase(k, p)
            /\ \A k1, k2 \in DOMAIN Res(i) :
                   SamePathIgnoringCase(k1, k2) => k1 = k2

\* a file of the right tree is represented by the left tree's spelling
C1_Witness ==
    /\ Ok(1)
    /\ \E p \in NonFiltered(treeB) :
          /\ p \notin DOMAIN Res(1)
          /\ \E k \in DOMAIN Res(1) : SamePathIgnoringCase(k, p)
    /\ Cardinality(DOMAIN Res(1)) >= 2

-----------------------------------------------------------------------------
(* C2 *)

OnlyIn(T, U) ==
    {p \in NonFiltered(T) :
        ~\E q \in FilePaths(U) : SamePathIgnoringCase(q, p)}

UniqueEntry(r, p, l2r) ==
    /\ p \in DOMAIN r
    /\ r[p].kind = "ItemInfo"
    /\ r[p].unique
    /\ r[p].mtimes = NoneSeq
    /\ r[p].sizes = NoneSeq
    /\ r[p].other_name = NoneSeq
    /\ r[p].left_to_right = l2r

\* C2: a non-filtered file that only one tree holds (the other has no file
\* at that path, not even a case variant) is recorded as unique without
\* mtimes, sizes and other_name, with left_to_right true when its tree is
\* the left argument of diff_items and false when it is the right one.
C2_UniqueDirection ==
    \A i \in {1, 2} :
        Ok(i) =>
            /\ \A p \in OnlyIn(LeftTree(i), RightTree(i)) :
                   UniqueEntry(Res(i), p, TRUE)
            /\ \A p \in OnlyIn(RightTree(i), LeftTree(i)) :
                   UniqueEntry(Res(i), p, FALSE)

\* both calls returned and a file only A holds went through both
C2_Witness ==
    /\ Ok(1) /\ Ok(2)
    /\ OnlyIn(treeA, treeB) # {}
    /\ OnlyIn(treeB, treeA) # {}

-----------------------------------------------------------------------------
(* C3 *)

\* C3: a non-filtered path at which both trees hold a file with the same
\* content maps to the equal sentinel whatever the mtimes; and a key maps
\* to the sentinel only if the two files compared for it (the trees' files
\* of that name ignoring case in that directory) have the same content.
C3_EqualSentinel ==
    \A i \in {1, 2} :
        Ok(i) =>
            /\ \A p \in NonFiltered(treeA) \cap NonFiltered(treeB) :
                   treeA.files[p].content = treeB.files[p].content
                       => Res(i)[p] = None
            /\ \A k \in DOMAIN Res(i) :
                   Res(i)[k] = None =>
                       \E p \in FilePaths(treeA), q \in FilePaths(treeB) :
                           /\ SameFileIgnoringCase(p, k)
                           /\ SameFileIgnoringCase(q, k)
                           /\ treeA.files[p].content = treeB.files[q].content

\* identical content with different mtimes was classified
C3_Witness ==
    /\ Ok(1)
    /\ \E p \in NonFiltered(treeA) \cap NonFiltered(treeB) :
          /\ treeA.files[p].content = treeB.files[p].content
          /\ treeA.files[p].mtime # treeB.files[p].mtime
          /\ Res(1)[p] = None

-----------------------------------------------------------------------------
(* C4 *)

\* pairs <<p, q>>: p in A and q in B are, in one directory, files whose
\* names differ only in case, not both filtered
CaseVariantPairs ==
    {pq \in FilePaths(treeA) \X FilePaths(treeB) :
        /\ SameFileIgnoringCase(pq[1], pq[2])
        /\ pq[1] # pq[2]
        /\ ~(Filtered(pq[1]) /\ Filtered(pq[2]))}

\* C4: for files whose names differ only in case in the same directory of
\* the two trees, the result has exactly one key for the pair, one of the
\* two spellings, and its entry is not unique: the sentinel when the
\* contents are identical, else a unique=false entry whose other_name is
\* the other side's path (the key's directory joined with the other name).
C4_CaseVariantPair ==
    \A i \in {1, 2} :
        Ok(i) =>
            \A pq \in CaseVariantPairs :
                LET ks == {k \in DOMAIN Res(i) : SamePathIgnoringCase(k, pq[1])}
                    same == treeA.files[pq[1]].content = treeB.files[pq[2]].content
                IN  /\ Cardinality(ks) = 1
                    /\ \A k \in ks :
                          /\ k \in {pq[1], pq[2]}
                          /\ same => Res(i)[k] = None
                          /\ ~same =>
                                /\ IsDiffering(Res(i)[k])
                                /\ Res(i)[k].other_name =
                                       (IF k = pq[1] THEN pq[2] ELSE pq[1])

\* a non-filtered case-variant pair below the root with differing contents
\* was recorded
C4_Witness ==
    /\ Ok(1)
    /\ \E pq \in CaseVariantPairs :
          /\ Len(pq[1]) > 1
          /\ ~Filtered(pq[1]) /\ ~Filtered(pq[2])
          /\ pq[1] \in DOMAIN Res(1)
          /\ IsDiffering(Res(1)[pq[1]])

-----------------------------------------------------------------------------
(* C8 *)

\* C8: in every state of either pass and in every returned result, no key
\* has a directory component matching ignore_dirs or a basename matching
\* ignore_files.
C8_NoFilteredKey ==
    /\ \A k \in DOMAIN result : ~Filtered(k)
    /\ \A i \in 1..Len(returned) : \A k \in DOMAIN Res(i) : ~Filtered(k)

\* a directory below the root is ignored in both trees, a file is not
C8_Witness ==
    /\ Ok(1)
    /\ DOMAIN Res(1) # {}
    /\ \E p \in FilePaths(treeA), q \in FilePaths(treeB) :
          /\ Len(p) > 1 /\ Matches(p[Len(p) - 1], ignore_dirs)
          /\ Len(q) > 1 /\ Matches(q[Len(q) - 1], ignore_dirs)
    /\ \E p \in FilePaths(treeA) \cup FilePaths(treeB) :
          Matches(Basename(p), ignore_files)

-----------------------------------------------------------------------------
(* C5 *)

Swap(t) == IF t = NoneSeq THEN NoneSeq ELSE <<t[2], t[1]>>

\* two entries mirror each other as the symmetry property words it
Mirror(v, w) ==
    \/ v = None /\ w = None
    \/ /\ v.kind = "ItemInfo" /\ w.kind = "ItemInfo"
       /\ v.left_to_right = ~w.left_to_right
       /\ v.mtimes = Swap(w.mtimes)
       /\ v.sizes = Swap(w.sizes)

MirrorTie(v, w) ==
    \/ v = None /\ w = None
    \/ /\ v.kind = "ItemInfo" /\ w.kind = "ItemInfo"
       /\ v.unique = w.unique
       /\ v.mtimes = Swap(w.mtimes)
       /\ v.sizes = Swap(w.sizes)
       /\ IF ~v.unique /\ v.mtimes[1] = v.mtimes[2]
          THEN ~v.left_to_right /\ ~w.left_to_right
          ELSE v.left_to_right = ~w.left_to_right

\* the counterparts of key k in tree T: its files at k's path ignoring case
Counterparts(T, k) == {q \in FilePaths(T) : SamePathIgnoringCase(q, k)}

\* key k is a file of one tree whose counterparts in the other tree, if
\* any, are non-filtered files of the identically spelled directory
PlainKey(k) ==
    \A p \in Counterparts(treeA, k) \cup Counterparts(treeB, k) :
        /\ Dirname(p) = Dirname(k)
        /\ ~Filtered(p)

-----------------------------------------------------------------------------
(* C6 *)

\* C6: every unique=false entry of diff_items(L, R) has mtimes and sizes
\* ordered (L's file, R's file) and left_to_right true exactly when L's
\* file has the strictly greater mtime.
C6_LeftRightOrder ==
    \A i \in {1, 2} :
        Ok(i) =>
            \A k \in DOMAIN Res(i) :
                IsDiffering(Res(i)[k]) =>
                    \E p \in FilePaths(LeftTree(i)), q \in FilePaths(RightTree(i)) :
                        LET fl == LeftTree(i).files[p]
                            fr == RightTree(i).files[q]
                        IN  /\ SameFileIgnoringCase(p, k)
                            /\ SameFileIgnoringCase(q, k)
                            /\ Res(i)[k].mtimes = <<fl.mtime, fr.mtime>>
                            /\ Res(i)[k].sizes = <<Size(fl.content), Size(fr.content)>>
                            /\ Res(i)[k].left_to_right = (fl.mtime > fr.mtime)

-----------------------------------------------------------------------------
(* C7 *)

\* C7: when a root does not exist, no file is classified and every call of
\* diff_items ends with an error instead of returning a result.
C7_RootNotFound ==
    (~treeA.exists \/ ~treeB.exists) =>
        /\ result = NoFiles
        /\ \A i \in 1..Len(returned) : returned[i].raised

-----------------------------------------------------------------------------
(* C9 *)

\* C9: when both roots exist, no call of diff_items ends with an error.
C9_NeverAborts ==
    (treeA.exists /\ treeB.exists) =>
        \A i \in 1..Len(returned) : ~returned[i].raised

-----------------------------------------------------------------------------
(* C10 *)

\* C10: a key is recorded as unique only if the tree it does not come from
\* holds no non-filtered file at that path ignoring case.
C10_UniqueOnlyIfAlone ==
    \A i \in {1, 2} :
        Ok(i) =>
            \A k \in DOMAIN Res(i) :
                IsUnique(Res(i)[k]) =>
                    LET Other == IF Res(i)[k].left_to_right
                                 THEN RightTree(i) ELSE LeftTree(i)
                    IN  ~\E q \in NonFiltered(Other) : SamePathIgnoringCase(q, k)

-----------------------------------------------------------------------------
(* C11 *)

\* C11: while reverse is True (the second pass), every entry written to the
\* result is a unique entry: no equal sentinel and no unique=false entry.
C11_SecondPassOnlyUnique ==
    [][reverse =>
          \A k \in DOMAIN result' \ DOMAIN result : IsUnique(result'[k])]_vars

====
